---- MODULE Spec2Model ----
(***************************************************************************)
(* State-machine model of the certificate back office:                     *)
(*   - CertificateService (in-memory certificate store, lifecycle and      *)
(*     public verification),                                               *)
(*   - JwtService (access / refresh / reset tokens),                       *)
(*   - TokenBlacklist and the authenticate middleware,                     *)
(*   - createRateLimitMiddleware (fixed-window rate limiter).              *)
(* JavaScript objects are modelled as functions from field names to        *)
(* values: a field that is absent from the object is absent from the       *)
(* function's domain, and object spread is function override (Merge).      *)
(* The clock is abstract: one tick of `now` is one unit of Date.now().     *)
(***************************************************************************)
EXTENDS Integers, Sequences, FiniteSets, TLC

VARIABLES
    now,                \* Date.now() / new Date()
    certificates,       \* CertificateService.certificates, in Map insertion order
    nextUuid,           \* number of uuidv4() values drawn so far
    emails,             \* the notification the last issueCertificate call made
    queried,            \* what the service returned, if its last call was a read
    accessTokenSecret,  \* JwtService fields read from process.env
    refreshTokenSecret,
    resetTokenSecret,
    presented,          \* the token string a caller presents to a verifier
    issuedFrom,         \* the payload presented was generated from, if any
    verified,           \* what each verifier returned for the presented token
    blacklistedTokens,  \* TokenBlacklist.blacklistedTokens
    timers,             \* pending setTimeout callbacks of TokenBlacklist.add
    addedExpiry,        \* history: every (token, expiryTime) passed to add
    everCleared,        \* history: cleanup() has cleared the set
    authResult,         \* what authenticate did with the last request
    windowMs,           \* createRateLimitMiddleware arguments
    max,
    requests,           \* the limiter's Map key -> {count, resetTime}
    admitted,           \* history: next() calls per key in its current window
    admittedAt,         \* history: the time of every next() call, per key
    response,           \* what the limiter did with the last request
    users,              \* the rows of the users table that UserModel queries
    httpResult,         \* what a controller did with the last request
    awaiting            \* the issueCertificate calls suspended at their await

vars == <<now, certificates, nextUuid, emails, queried, accessTokenSecret, refreshTokenSecret,
          resetTokenSecret, presented, issuedFrom, verified, blacklistedTokens,
          timers, addedExpiry, everCleared, authResult, windowMs, max, requests,
          admitted, admittedAt, response, users, httpResult,
          awaiting>>

certVars == <<certificates, nextUuid, emails, queried>>
jwtVars == <<accessTokenSecret, refreshTokenSecret, resetTokenSecret,
             presented, issuedFrom, verified>>
blacklistVars == <<blacklistedTokens, timers, addedExpiry, everCleared, authResult>>
rateVars == <<windowMs, max, requests, admitted, admittedAt, response>>
httpVars == <<users, httpResult>>

(***************************************************************************)
(* Bounds of the model.                                                    *)
(***************************************************************************)
\* The clock runs from 1 to MaxTime.
MaxTime == 2
\* At most MaxCreates calls of createCertificate (uuids 1..MaxCreates).
MaxCreates == 2
\* The clock of the token and rate-limit specifications runs to MaxLongTime.
MaxLongTime == 3
\* Token lifetimes in clock ticks, standing for '15m', '7d' and '1h'.
AccessTokenExpiry == 1
RefreshTokenExpiry == 2
ResetTokenExpiry == 1
\* The size above which cleanup() clears the blacklist, standing for 10000.
HighWaterMark == 1
\* createRateLimitMiddleware is called with windowMs in 1..MaxWindowMs and
\* max in 0..MaxLimit.
MaxWindowMs == 2
MaxLimit == 2
\* At most MaxSuspended issueCertificate calls wait for their notification
\* at the same time.
MaxSuspended == 1

Times == 1..MaxTime
LongTimes == 1..MaxLongTime

(***************************************************************************)
(* JavaScript objects.                                                     *)
(***************************************************************************)
\* { ...a, ...b }
Merge(a, b) ==
    [k \in DOMAIN a \cup DOMAIN b |-> IF k \in DOMAIN b THEN b[k] ELSE a[k]]

\* obj.k is neither undefined nor another falsy value (times and strings of
\* the model are all truthy)
Has(obj, k) == k \in DOMAIN obj

\* the empty object {}
EmptyObject == [k \in {} |-> 0]

\* a function call either returns a value or throws
Returned(v) == [threw |-> FALSE, value |-> v]
Threw(e) == [threw |-> TRUE, error |-> e]

\* null
Null == [null |-> TRUE]

\* the value undefined of an object property
Undefined == "undefined"

(***************************************************************************)
(* CertificateService                                                      *)
(***************************************************************************)
\* enum CertificateStatus
ACTIVE == "active"
EXPIRED == "expired"
REVOKED == "revoked"
PENDING == "pending"
DRAFT == "draft"
ISSUED == "issued"

\* Math.random().toString(36).substring(2, 8): two outcomes are enough to
\* have both equal and different suffixes.
RandomSuffixes == {"A", "B"}

\* generateCertificateId(): CERT-<base36 millis>-<random>, upper-cased
generateCertificateId(t, r) == <<"CERT", t, r>>

CertificateIds == {generateCertificateId(t, r) : t \in Times, r \in RandomSuffixes}

\* The request bodies the controller hands to createCertificate, after it
\* has set userId: the body is spread unchanged, so it may carry any field.
CreateInputs ==
    LET base == [userId |-> "42", name |-> "Course A", type |-> "completion"]
    IN  {base} \cup {Merge(base, [expiresAt |-> t]) : t \in Times}

\* The request bodies the controller hands to updateCertificate unchanged.
UpdateInputs ==
    {[expiresAt |-> t] : t \in Times} \cup {[status |-> s] : s \in {ACTIVE, DRAFT}}

RevocationReasons == {"policy violation"}

\* this.certificates.get(id): the position of the entry with key id, 0 if none
IndexOfKey(certs, id) ==
    IF \E i \in 1..Len(certs) : certs[i].key = id
    THEN CHOOSE i \in 1..Len(certs) : certs[i].key = id
    ELSE 0

\* this.certificates.set(id, certificate): an existing key keeps its place
\* in the iteration order, a new key goes last
MapSet(certs, id, certificate) ==
    LET i == IndexOfKey(certs, id)
        entry == [key |-> id, value |-> certificate]
    IN  IF i = 0 THEN Append(certs, entry) ELSE [certs EXCEPT ![i] = entry]

\* this.certificates.delete(id)
MapDelete(certs, id) ==
    LET i == IndexOfKey(certs, id)
    IN  [j \in 1..(Len(certs) - 1) |-> IF j < i THEN certs[j] ELSE certs[j + 1]]

\* the certificate object createCertificate builds
NewCertificate(uuid, certificateId, input, t) ==
    Merge(Merge([id |-> uuid, certificateId |-> certificateId], input),
          [status |-> DRAFT, createdAt |-> t, updatedAt |-> t])

createCertificate(input, r) ==
    /\ nextUuid < MaxCreates
    /\ LET certificate ==
               NewCertificate(nextUuid + 1, generateCertificateId(now, r), input, now)
       IN  certificates' = MapSet(certificates, certificate.id, certificate)
    /\ nextUuid' = nextUuid + 1
    /\ queried' = EmptyObject
    /\ UNCHANGED <<now, emails, jwtVars, blacklistVars, rateVars, httpVars, awaiting>>

\* the certificate object updateCertificate stores
UpdatedCertificate(certificate, input, t) ==
    Merge(Merge(certificate, input), [updatedAt |-> t])

\* updateCertificate storing the merged object under an unknown id too
updateCertificate_Upsert(id, input) ==
    /\ LET i == IndexOfKey(certificates, id)
           certificate == IF i = 0 THEN [id |-> id] ELSE certificates[i].value
       IN  certificates' =
               MapSet(certificates, id, UpdatedCertificate(certificate, input, now))
    /\ queried' = EmptyObject
    /\ UNCHANGED <<now, nextUuid, emails, jwtVars, blacklistVars, rateVars, httpVars, awaiting>>

updateCertificate(id, input) ==
    /\ LET i == IndexOfKey(certificates, id)
       IN  IF i = 0
           THEN UNCHANGED certificates
           ELSE certificates' =
                    MapSet(certificates, id,
                           UpdatedCertificate(certificates[i].value, input, now))
    /\ queried' = EmptyObject
    /\ UNCHANGED <<now, nextUuid, emails, jwtVars, blacklistVars, rateVars, httpVars, awaiting>>

deleteCertificate(id) ==
    /\ IF IndexOfKey(certificates, id) = 0
       THEN UNCHANGED certificates
       ELSE certificates' = MapDelete(certificates, id)
    /\ queried' = EmptyObject
    /\ UNCHANGED <<now, nextUuid, emails, jwtVars, blacklistVars, rateVars, httpVars, awaiting>>

\* the certificate object issueCertificate stores
\* an issue that keeps the issuedAt of a certificate issued before
IssuedCertificate_OnlyOnce(certificate, t) ==
    IF Has(certificate, "issuedAt")
    THEN Merge(certificate, [status |-> ISSUED, updatedAt |-> t])
    ELSE Merge(certificate, [status |-> ISSUED, issuedAt |-> t, updatedAt |-> t])

IssuedCertificate(certificate, t) ==
    Merge(certificate, [status |-> ISSUED, issuedAt |-> t, updatedAt |-> t])

\* What awaiting sendCertificateIssuedEmail may do: resolve to true, resolve
\* to false (sendEmail caught a transport error), or reject.
EmailOutcomes == {"sent", "failed", "threw"}

\* the call sendCertificateIssuedEmail(recipientEmail, certificateId, name)
\* made at time t, with its outcome
Notification(certificate, t, outcome) ==
    [to |-> certificate.recipientEmail, certificateId |-> certificate.certificateId,
     name |-> certificate.name, at |-> t, outcome |-> outcome]

\* The store is written before the notification is awaited; whatever
\* sendCertificateIssuedEmail does afterwards, the store keeps the write.
\* issueCertificate undoing its write when the notification is rejected
issueCertificate_Rollback(id) ==
    /\ LET i == IndexOfKey(certificates, id)
           certificate == certificates[i].value
       IN  IF i = 0
           THEN UNCHANGED certificates /\ emails' = {}
           ELSE IF Has(certificate, "recipientEmail")
           THEN \E outcome \in EmailOutcomes :
                    /\ emails' = {Notification(certificate, now, outcome)}
                    /\ certificates' =
                           IF outcome = "threw" THEN certificates
                           ELSE MapSet(certificates, id,
                                       IssuedCertificate(certificate, now))
           ELSE /\ emails' = {}
                /\ certificates' =
                       MapSet(certificates, id, IssuedCertificate(certificate, now))
    /\ queried' = EmptyObject
    /\ UNCHANGED <<now, nextUuid, jwtVars, blacklistVars, rateVars, httpVars, awaiting>>

issueCertificate(id) ==
    /\ LET i == IndexOfKey(certificates, id)
           certificate == certificates[i].value
       IN  IF i = 0
           THEN UNCHANGED certificates /\ emails' = {}
           ELSE /\ certificates' =
                       MapSet(certificates, id, IssuedCertificate(certificate, now))
                /\ IF Has(certificate, "recipientEmail")
                   THEN \E outcome \in EmailOutcomes :
                            emails' = {Notification(certificate, now, outcome)}
                   ELSE emails' = {}
    /\ queried' = EmptyObject
    /\ UNCHANGED <<now, nextUuid, jwtVars, blacklistVars, rateVars, httpVars, awaiting>>

\* issueCertificate(id) up to its await: the store is read and written in
\* one synchronous run; the call suspends only if there is a notification
\* to send, and returns at once otherwise
issueCertificateBegin(id) ==
    /\ LET i == IndexOfKey(certificates, id)
           certificate == certificates[i].value
           updatedCertificate == IssuedCertificate(certificate, now)
       IN  IF i = 0
           THEN UNCHANGED <<certificates, awaiting>>
           ELSE /\ certificates' = MapSet(certificates, id, updatedCertificate)
                /\ IF Has(certificate, "recipientEmail")
                   THEN /\ Cardinality(awaiting) < MaxSuspended
                        /\ awaiting' = awaiting \cup
                               {[id |-> id, certificate |-> certificate,
                                 updatedCertificate |-> updatedCertificate,
                                 at |-> now]}
                   ELSE UNCHANGED awaiting
    /\ emails' = {}
    /\ queried' = EmptyObject
    /\ UNCHANGED <<now, nextUuid, jwtVars, blacklistVars, rateVars, httpVars>>

\* an issueCertificate that stores its certificate again when it resumes
issueCertificateResume_WriteBack(call) ==
    /\ call \in awaiting
    /\ awaiting' = awaiting \ {call}
    /\ \E outcome \in EmailOutcomes :
           emails' = {Notification(call.certificate, call.at, outcome)}
    /\ certificates' = MapSet(certificates, call.id, call.updatedCertificate)
    /\ UNCHANGED <<now, nextUuid, queried, jwtVars, blacklistVars, rateVars, httpVars>>

\* issueCertificate after its await: the notification has resolved or
\* rejected, and the call returns the certificate it stored or throws
issueCertificateResume(call) ==
    /\ call \in awaiting
    /\ awaiting' = awaiting \ {call}
    /\ \E outcome \in EmailOutcomes :
           emails' = {Notification(call.certificate, call.at, outcome)}
    /\ UNCHANGED <<now, certificates, nextUuid, queried, jwtVars, blacklistVars,
                   rateVars, httpVars>>

\* the certificate object revokeCertificate stores
RevokedCertificate(certificate, reason, t) ==
    Merge(certificate, [status |-> REVOKED, revokedAt |-> t,
                        revocationReason |-> reason, updatedAt |-> t])

revokeCertificate(id, reason) ==
    /\ LET i == IndexOfKey(certificates, id)
       IN  IF i = 0
           THEN UNCHANGED certificates
           ELSE certificates' =
                    MapSet(certificates, id,
                           RevokedCertificate(certificates[i].value, reason, now))
    /\ queried' = EmptyObject
    /\ UNCHANGED <<now, nextUuid, emails, jwtVars, blacklistVars, rateVars, httpVars, awaiting>>

\* getCertificateByCertificateId: the first certificate, in iteration
\* order, with that certificateId; 0 if none
FindByCertificateId(certs, certificateId) ==
    LET hits == {i \in 1..Len(certs) : certs[i].value.certificateId = certificateId}
    IN  IF hits = {} THEN 0 ELSE CHOOSE i \in hits : \A j \in hits : i <= j

\* verifyCertificate with the expiry check moved in front of the status checks
verifyCertificate_ExpiryFirst(certs, certificateId, t) ==
    LET i == FindByCertificateId(certs, certificateId)
        certificate == certs[i].value
    IN  IF i = 0
        THEN [isValid |-> FALSE, error |-> "Certificate not found"]
        ELSE IF Has(certificate, "expiresAt") /\ certificate.expiresAt < t
        THEN [isValid |-> FALSE, certificate |-> certificate,
              error |-> "Certificate has expired"]
        ELSE IF certificate.status = REVOKED
        THEN [isValid |-> FALSE, certificate |-> certificate,
              error |-> "Certificate has been revoked"]
        ELSE IF certificate.status = DRAFT
        THEN [isValid |-> FALSE, certificate |-> certificate,
              error |-> "Certificate has not been issued yet"]
        ELSE [isValid |-> TRUE, certificate |-> certificate]

\* verifyCertificate(certificateId) at time t
verifyCertificate(certs, certificateId, t) ==
    LET i == FindByCertificateId(certs, certificateId)
        certificate == certs[i].value
    IN  IF i = 0
        THEN [isValid |-> FALSE, error |-> "Certificate not found"]
        ELSE IF certificate.status = REVOKED
        THEN [isValid |-> FALSE, certificate |-> certificate,
              error |-> "Certificate has been revoked"]
        ELSE IF certificate.status = DRAFT
        THEN [isValid |-> FALSE, certificate |-> certificate,
              error |-> "Certificate has not been issued yet"]
        ELSE IF Has(certificate, "expiresAt") /\ certificate.expiresAt < t
        THEN [isValid |-> FALSE, certificate |-> certificate,
              error |-> "Certificate has expired"]
        ELSE [isValid |-> TRUE, certificate |-> certificate]

\* what updateCertificate(id, input) returns at time t
updateCertificateResult(certs, id, input, t) ==
    LET i == IndexOfKey(certs, id)
    IN  IF i = 0 THEN Returned(Null)
        ELSE Returned(UpdatedCertificate(certs[i].value, input, t))

\* what deleteCertificate(id) returns
deleteCertificateResult(certs, id) == Returned(IndexOfKey(certs, id) # 0)

\* what issueCertificate(id) returns at time t, given what awaiting the
\* notification does: a rejected notification is caught and rethrown
issueCertificateResult(certs, id, t, outcome) ==
    LET i == IndexOfKey(certs, id)
    IN  IF i = 0 THEN Returned(Null)
        ELSE IF Has(certs[i].value, "recipientEmail") /\ outcome = "threw"
        THEN Threw("Failed to issue certificate")
        ELSE Returned(IssuedCertificate(certs[i].value, t))

\* what revokeCertificate(id, reason) returns at time t
revokeCertificateResult(certs, id, reason, t) ==
    LET i == IndexOfKey(certs, id)
    IN  IF i = 0 THEN Returned(Null)
        ELSE Returned(RevokedCertificate(certs[i].value, reason, t))

\* Strings that are searched are sequences of characters.
\* String.prototype.toLowerCase, on the characters that occur
LowerCase(ch) ==
    CASE ch = "A" -> "a" [] ch = "B" -> "b" [] ch = "C" -> "c" [] ch = "E" -> "e"
      [] ch = "R" -> "r" [] ch = "T" -> "t" [] ch = "X" -> "x" [] OTHER -> ch

toLowerCase(text) == [i \in 1..Len(text) |-> LowerCase(text[i])]

\* text.includes(term)
includes(text, term) ==
    \E i \in 0..(Len(text) - Len(term)) : SubSeq(text, i + 1, i + Len(term)) = term

\* the characters of a certificateId: CERT-<base36 millis>-<random>
CertificateIdText(certificateId) ==
    <<"C", "E", "R", "T", "-", ToString(certificateId[2]), "-", certificateId[3]>>

\* filters.k is set and not 0 (if (filters.limit), if (filters.offset))
NonZero(obj, k) == k \in DOMAIN obj /\ obj[k] # 0

\* the search filter of getCertificates on one certificate
MatchesSearch(cert, searchTerm) ==
    \/ includes(toLowerCase(cert.name), searchTerm)
    \/ Has(cert, "description") /\ includes(toLowerCase(cert.description), searchTerm)
    \/ Has(cert, "recipientName")
           /\ includes(toLowerCase(cert.recipientName), searchTerm)
    \/ includes(toLowerCase(CertificateIdText(cert.certificateId)), searchTerm)

\* getCertificates without its sort
SortNewestFirst_Unsorted(certs) == certs

\* certificates.sort((a, b) => b.createdAt - a.createdAt): a stable sort,
\* certificates with equal createdAt keep their order
RECURSIVE SortNewestFirst(_)
SortNewestFirst(certs) ==
    IF certs = <<>> THEN <<>>
    ELSE LET sorted == SortNewestFirst(SubSeq(certs, 1, Len(certs) - 1))
             last == certs[Len(certs)]
             k == Cardinality({i \in 1..Len(sorted) :
                                  sorted[i].createdAt >= last.createdAt})
         IN  SubSeq(sorted, 1, k) \o <<last>> \o SubSeq(sorted, k + 1, Len(sorted))

\* array.slice(start) and array.slice(0, end) for start, end >= 0
SliceFrom(array, start) == SubSeq(array, start + 1, Len(array))
SliceTo(array, end) == SubSeq(array, 1, IF end < Len(array) THEN end ELSE Len(array))

\* getCertificates(filters)
getCertificates(certs, filters) ==
    LET all == [i \in 1..Len(certs) |-> certs[i].value]
        ByStatus(cert) == cert.status = filters.status
        ByUser(cert) == cert.userId = filters.userId
        BySearch(cert) == MatchesSearch(cert, toLowerCase(filters.search))
        ByDateFrom(cert) == cert.createdAt >= filters.dateFrom
        ByDateTo(cert) == cert.createdAt <= filters.dateTo
        f1 == IF Has(filters, "status") THEN SelectSeq(all, ByStatus) ELSE all
        f2 == IF Has(filters, "userId") THEN SelectSeq(f1, ByUser) ELSE f1
        f3 == IF Has(filters, "search") THEN SelectSeq(f2, BySearch) ELSE f2
        f4 == IF Has(filters, "dateFrom") THEN SelectSeq(f3, ByDateFrom) ELSE f3
        f5 == IF Has(filters, "dateTo") THEN SelectSeq(f4, ByDateTo) ELSE f4
        sorted == SortNewestFirst(f5)
        skipped == IF NonZero(filters, "offset")
                   THEN SliceFrom(sorted, filters.offset) ELSE sorted
        page == IF NonZero(filters, "limit")
                THEN SliceTo(skipped, filters.limit) ELSE skipped
    IN  [certificates |-> page, total |-> Len(sorted)]

\* getCertificateStatistics(userId) at time t
getCertificateStatistics(certs, userId, t) ==
    LET all == [i \in 1..Len(certs) |-> certs[i].value]
        ByUser(cert) == cert.userId = userId
        selected == IF userId # Undefined THEN SelectSeq(all, ByUser) ELSE all
        IsIssued(cert) == cert.status = ISSUED
        IsDraft(cert) == cert.status = DRAFT
        IsRevoked(cert) == cert.status = REVOKED
        IsExpired(cert) == Has(cert, "expiresAt") /\ cert.expiresAt < t
    IN  [total |-> Len(selected),
         issued |-> Len(SelectSeq(selected, IsIssued)),
         draft |-> Len(SelectSeq(selected, IsDraft)),
         revoked |-> Len(SelectSeq(selected, IsRevoked)),
         expired |-> Len(SelectSeq(selected, IsExpired))]

\* The read operations: the store is only read, the caller gets the result.
VerifyCertificate(certificateId) ==
    /\ queried' = [op |-> "verifyCertificate", certificateId |-> certificateId,
                   result |-> verifyCertificate(certificates, certificateId, now)]
    /\ UNCHANGED <<now, certificates, nextUuid, emails,
                   jwtVars, blacklistVars, rateVars, httpVars, awaiting>>

GetCertificates(filters) ==
    /\ queried' = [op |-> "getCertificates", filters |-> filters,
                   result |-> getCertificates(certificates, filters)]
    /\ UNCHANGED <<now, certificates, nextUuid, emails,
                   jwtVars, blacklistVars, rateVars, httpVars, awaiting>>

GetCertificateStatistics(userId) ==
    /\ queried' = [op |-> "getCertificateStatistics", userId |-> userId,
                   result |-> getCertificateStatistics(certificates, userId, now)]
    /\ UNCHANGED <<now, certificates, nextUuid, emails,
                   jwtVars, blacklistVars, rateVars, httpVars, awaiting>>

\* The clock advances.
Tick ==
    /\ now < MaxTime
    /\ now' = now + 1
    /\ UNCHANGED <<certVars, jwtVars, blacklistVars, rateVars, httpVars, awaiting>>

\* The clock advances, in the token and rate-limit specifications.
Advance ==
    /\ now < MaxLongTime
    /\ now' = now + 1
    /\ UNCHANGED <<certVars, jwtVars, blacklistVars, rateVars, httpVars, awaiting>>

(***************************************************************************)
(* JwtService                                                              *)
(***************************************************************************)
\* obj[k], undefined when the property is absent
Get(obj, k) == IF k \in DOMAIN obj THEN obj[k] ELSE Undefined

\* JSON.parse(JSON.stringify(obj)): properties whose value is undefined
\* are dropped
JsonRoundTrip(obj) ==
    [k \in {f \in DOMAIN obj : obj[f] # Undefined} |-> obj[k]]

ISSUER == "pic-certificates-api"
AUDIENCE == "pic-certificates-client"

DefaultAccessSecret == "your-access-secret-key"
DefaultRefreshSecret == "your-refresh-secret-key"
DefaultResetSecret == "your-reset-secret-key"

\* the values process.env may give a JWT_*_SECRET variable; Undefined is
\* the variable not being set
EnvSecrets == {Undefined, "k1"}

\* process.env[name] || fallback
EnvOr(value, fallback) == IF value = Undefined THEN fallback ELSE value

\* jwt.sign(payload, secret, {expiresIn, issuer, audience}) at time t
JwtSign(payload, secret, expiresIn, t) ==
    [sig |-> secret,
     payload |-> Merge(JsonRoundTrip(payload),
                       [iat |-> t, exp |-> t + expiresIn,
                        iss |-> ISSUER, aud |-> AUDIENCE])]

\* jwt.verify without the issuer option
JwtVerify_NoIssuer(token, secret, t) ==
    IF ~Has(token, "sig")
    THEN Threw("JsonWebTokenError")
    ELSE IF token.sig # secret
    THEN Threw("JsonWebTokenError")
    ELSE IF Has(token.payload, "exp") /\ t >= token.payload.exp
    THEN Threw("TokenExpiredError")
    ELSE IF Get(token.payload, "aud") # AUDIENCE
    THEN Threw("JsonWebTokenError")
    ELSE Returned(token.payload)

\* jwt.verify without the expiry check
JwtVerify_NoExpiry(token, secret, t) ==
    IF ~Has(token, "sig")
    THEN Threw("JsonWebTokenError")
    ELSE IF token.sig # secret
    THEN Threw("JsonWebTokenError")
    ELSE IF Get(token.payload, "aud") # AUDIENCE
    THEN Threw("JsonWebTokenError")
    ELSE IF Get(token.payload, "iss") # ISSUER
    THEN Threw("JsonWebTokenError")
    ELSE Returned(token.payload)

\* jwt.verify(token, secret, {issuer, audience}) at time t: the token is
\* well formed, its signature was made with secret, it is not expired,
\* and its audience and issuer are the expected ones
JwtVerify(token, secret, t) ==
    IF ~Has(token, "sig")
    THEN Threw("JsonWebTokenError")
    ELSE IF token.sig # secret
    THEN Threw("JsonWebTokenError")
    ELSE IF Has(token.payload, "exp") /\ t >= token.payload.exp
    THEN Threw("TokenExpiredError")
    ELSE IF Get(token.payload, "aud") # AUDIENCE
    THEN Threw("JsonWebTokenError")
    ELSE IF Get(token.payload, "iss") # ISSUER
    THEN Threw("JsonWebTokenError")
    ELSE Returned(token.payload)

\* try { return jwt.verify(...) } catch (error) { return null }
verifyAccessToken(token, t) ==
    LET decoded == JwtVerify(token, accessTokenSecret, t)
    IN  IF decoded.threw THEN Returned(Null) ELSE Returned(decoded.value)

verifyRefreshToken(token, t) ==
    LET decoded == JwtVerify(token, refreshTokenSecret, t)
    IN  IF decoded.threw THEN Returned(Null) ELSE Returned(decoded.value)

\* verifyResetToken without the check of decoded.type
verifyResetToken_NoTypeCheck(token, t) ==
    LET decoded == JwtVerify(token, resetTokenSecret, t)
    IN  IF decoded.threw THEN Returned(Null) ELSE Returned(decoded.value)

verifyResetToken(token, t) ==
    LET decoded == JwtVerify(token, resetTokenSecret, t)
    IN  IF decoded.threw
        THEN Returned(Null)
        ELSE IF Get(decoded.value, "type") # "reset"
        THEN Returned(Null)
        ELSE Returned(decoded.value)

\* the payloads the callers sign: {id, username, email, role, factoryId?}
BasePayload ==
    [id |-> "7", username |-> "u@example.com", email |-> "u@example.com",
     role |-> "User"]

Payloads ==
    {BasePayload,
     Merge(BasePayload, [factoryId |-> "F1"]),
     Merge(BasePayload, [factoryId |-> Undefined])}

UserIds == {"7"}

PayloadFields == {"id", "username", "email", "role", "factoryId"}

\* the keys a token may be signed with: the configured ones, the defaults
\* and one the service never uses
SigningKeys ==
    (EnvSecrets \ {Undefined})
    \cup {DefaultAccessSecret, DefaultRefreshSecret, DefaultResetSecret, "other-key"}

\* Any string may be presented as a token: every combination of signing
\* key, claims and registered claims, and a string that is no JWT.
PresentableTokens ==
    {[malformed |-> TRUE]}
    \cup {[sig |-> k, payload |-> Merge(Merge(body, [iss |-> iss, aud |-> aud]), exp)] :
             k \in SigningKeys,
             body \in {BasePayload, [id |-> "7", type |-> "reset"],
                       Merge(BasePayload, [type |-> "access"])},
             iss \in {ISSUER, "other-issuer"},
             aud \in {AUDIENCE, "other-audience"},
             exp \in {EmptyObject} \cup {[exp |-> t] : t \in LongTimes}}

generateAccessToken(payload) ==
    /\ presented' = JwtSign(payload, accessTokenSecret, AccessTokenExpiry, now)
    /\ issuedFrom' = [class |-> "access", payload |-> payload]
    /\ verified' = EmptyObject
    /\ UNCHANGED <<now, accessTokenSecret, refreshTokenSecret, resetTokenSecret,
                   certVars, blacklistVars, rateVars, httpVars, awaiting>>

generateRefreshToken(payload) ==
    /\ presented' = JwtSign(payload, refreshTokenSecret, RefreshTokenExpiry, now)
    /\ issuedFrom' = [class |-> "refresh", payload |-> payload]
    /\ verified' = EmptyObject
    /\ UNCHANGED <<now, accessTokenSecret, refreshTokenSecret, resetTokenSecret,
                   certVars, blacklistVars, rateVars, httpVars, awaiting>>

generateResetToken(userId) ==
    /\ presented' = JwtSign([id |-> userId, type |-> "reset"], resetTokenSecret,
                            ResetTokenExpiry, now)
    /\ issuedFrom' = [class |-> "reset", payload |-> [id |-> userId, type |-> "reset"]]
    /\ verified' = EmptyObject
    /\ UNCHANGED <<now, accessTokenSecret, refreshTokenSecret, resetTokenSecret,
                   certVars, blacklistVars, rateVars, httpVars, awaiting>>

\* A caller presents a token the service did not necessarily issue.
PresentToken(token) ==
    /\ presented' = token
    /\ issuedFrom' = EmptyObject
    /\ verified' = EmptyObject
    /\ UNCHANGED <<now, accessTokenSecret, refreshTokenSecret, resetTokenSecret,
                   certVars, blacklistVars, rateVars, httpVars, awaiting>>

\* One of the three verifiers is called with the presented token.
VerifyPresented(class) ==
    /\ verified' =
           [by |-> class,
            result |-> CASE class = "access" -> verifyAccessToken(presented, now)
                         [] class = "refresh" -> verifyRefreshToken(presented, now)
                         [] class = "reset" -> verifyResetToken(presented, now)]
    /\ UNCHANGED <<now, accessTokenSecret, refreshTokenSecret, resetTokenSecret,
                   presented, issuedFrom, certVars, blacklistVars, rateVars, httpVars, awaiting>>

(***************************************************************************)
(* TokenBlacklist                                                          *)
(***************************************************************************)
\* the tokens callers blacklist: an access token the service issued at
\* time 1 with the default secret, and a string that is no JWT
IssuedAccessToken == JwtSign(BasePayload, DefaultAccessSecret, AccessTokenExpiry, 1)

BlacklistableTokens == {IssuedAccessToken, [malformed |-> TRUE]}

\* the expiryTime arguments of add: none, or a time
ExpiryArguments == {EmptyObject} \cup {[expiryTime |-> t] : t \in 2..(MaxTime + 1)}

\* add(token, expiryTime?): the token joins the set and, with an expiry,
\* a timer is set that deletes it expiryTime - Date.now() later
add(token, arguments) ==
    /\ blacklistedTokens' = blacklistedTokens \cup {token}
    /\ IF Has(arguments, "expiryTime")
       THEN /\ timers' = timers \cup {[token |-> token, at |-> arguments.expiryTime]}
            /\ addedExpiry' = addedExpiry \cup {<<token, arguments.expiryTime>>}
       ELSE UNCHANGED <<timers, addedExpiry>>
    /\ UNCHANGED <<now, everCleared, authResult, certVars, jwtVars, rateVars, httpVars, awaiting>>

\* the callback of a timer set by add runs, no earlier than its time
TimerFires(timer) ==
    /\ timer \in timers
    /\ now >= timer.at
    /\ blacklistedTokens' = blacklistedTokens \ {timer.token}
    /\ timers' = timers \ {timer}
    /\ UNCHANGED <<now, addedExpiry, everCleared, authResult, certVars, jwtVars,
                   rateVars, httpVars, awaiting>>

\* isBlacklisted(token)
isBlacklisted(token) == token \in blacklistedTokens

\* a cleanup that prunes one token when the set is above the mark
cleanup_Prune ==
    /\ IF Cardinality(blacklistedTokens) > HighWaterMark
       THEN /\ \E token \in blacklistedTokens :
                   blacklistedTokens' = blacklistedTokens \ {token}
            /\ everCleared' = TRUE
       ELSE UNCHANGED <<blacklistedTokens, everCleared>>
    /\ UNCHANGED <<now, timers, addedExpiry, authResult, certVars, jwtVars, rateVars, httpVars, awaiting>>

\* cleanup(), run by the constructor's setInterval
cleanup ==
    /\ IF Cardinality(blacklistedTokens) > HighWaterMark
       THEN blacklistedTokens' = {} /\ everCleared' = TRUE
       ELSE UNCHANGED <<blacklistedTokens, everCleared>>
    /\ UNCHANGED <<now, timers, addedExpiry, authResult, certVars, jwtVars, rateVars, httpVars, awaiting>>

(***************************************************************************)
(* authenticate middleware                                                 *)
(***************************************************************************)
\* the requests: without an Authorization header, or with "Bearer <token>"
AuthRequests ==
    {EmptyObject} \cup {[authorization |-> token] : token \in BlacklistableTokens}

\* a middleware that lets every request through, with req.user set when
\* the token verifies
Authenticate_Optional(req, t) ==
    LET decoded == verifyAccessToken(req.authorization, t)
    IN  IF ~Has(req, "authorization") THEN [next |-> TRUE]
        ELSE IF decoded.value = Null THEN [next |-> TRUE]
        ELSE [next |-> TRUE,
              user |-> [id |-> Get(decoded.value, "id"),
                        username |-> Get(decoded.value, "username"),
                        email |-> Get(decoded.value, "email"),
                        role |-> Get(decoded.value, "role"),
                        factoryId |-> Get(decoded.value, "factoryId")]]

\* authenticate(req, res, next) at time t: what it answers, and req.user
Authenticate(req, t) ==
    IF ~Has(req, "authorization")
    THEN [next |-> FALSE, status |-> 401, code |-> "TOKEN_REQUIRED"]
    ELSE LET decoded == verifyAccessToken(req.authorization, t)
         IN  IF decoded.threw
             THEN [next |-> FALSE, status |-> 401, code |-> "TOKEN_INVALID"]
             ELSE IF decoded.value = Null
             THEN [next |-> FALSE, status |-> 401, code |-> "TOKEN_INVALID"]
             ELSE [next |-> TRUE,
                   user |-> [id |-> Get(decoded.value, "id"),
                             username |-> Get(decoded.value, "username"),
                             email |-> Get(decoded.value, "email"),
                             role |-> Get(decoded.value, "role"),
                             factoryId |-> Get(decoded.value, "factoryId")]]

authenticate(req) ==
    /\ authResult' = Merge(Authenticate(req, now), [request |-> req])
    /\ UNCHANGED <<now, blacklistedTokens, timers, addedExpiry, everCleared,
                   certVars, jwtVars, rateVars, httpVars, awaiting>>

(***************************************************************************)
(* createRateLimitMiddleware                                               *)
(***************************************************************************)
\* req.ip || ''
Keys == {"10.0.0.1", "10.0.0.2"}

MsPerSecond == 1000

\* Math.floor(a / b) for b > 0
Ceil_Floor(a, b) == a \div b

\* Math.ceil(a / b) for b > 0
Ceil(a, b) == IF a % b = 0 THEN a \div b ELSE (a \div b) + 1

\* a window that is kept for ever
WindowElapsed_Never(data, t) == FALSE

\* a window that ends as soon as resetTime is reached
WindowElapsed_Reached(data, t) == data.resetTime <= t

\* data.resetTime < now
WindowElapsed(data, t) == data.resetTime < t

\* the Map after "Clean up old entries"
CleanedUp(map, t) == [k \in {ip \in DOMAIN map : ~WindowElapsed(map[ip], t)} |-> map[k]]

\* the limiter admitting while count <= max
WithinLimit_OffByOne(count, limit) == count <= limit

\* requestData.count < max
WithinLimit(count, limit) == count < limit

\* the middleware handles a request of key: next() or a 429 response
RateLimit(key) ==
    LET cleaned == CleanedUp(requests, now)
        requestData == IF key \in DOMAIN cleaned THEN cleaned[key] ELSE EmptyObject
        before == IF key \in DOMAIN requests THEN requests[key] ELSE EmptyObject
    IN  /\ IF requestData = EmptyObject \/ WindowElapsed(requestData, now)
           THEN /\ requests' = Merge(cleaned, [k \in {key} |->
                                       [count |-> 1, resetTime |-> now + windowMs]])
                /\ admitted' = [k \in DOMAIN requests' |->
                                   IF k = key THEN 1 ELSE admitted[k]]
                /\ admittedAt' = [admittedAt EXCEPT ![key] = Append(@, now)]
                /\ response' = [key |-> key, before |-> before,
                                found |-> requestData, at |-> now,
                                status |-> "next"]
           ELSE IF WithinLimit(requestData.count, max)
           THEN /\ requests' = [cleaned EXCEPT ![key].count = @ + 1]
                /\ admitted' = [k \in DOMAIN requests' |->
                                   IF k = key THEN admitted[k] + 1 ELSE admitted[k]]
                /\ admittedAt' = [admittedAt EXCEPT ![key] = Append(@, now)]
                /\ response' = [key |-> key, before |-> before,
                                found |-> requestData, at |-> now,
                                status |-> "next"]
           ELSE /\ requests' = cleaned
                /\ admitted' = [k \in DOMAIN requests' |-> admitted[k]]
                /\ admittedAt' = admittedAt
                /\ response' = [key |-> key, before |-> before,
                                found |-> requestData, at |-> now,
                                status |-> "429", code |-> "RATE_LIMIT_EXCEEDED",
                                retryAfter |->
                                    Ceil(requestData.resetTime - now, MsPerSecond)]
        /\ UNCHANGED <<now, windowMs, max, certVars, jwtVars, blacklistVars, httpVars, awaiting>>

(***************************************************************************)
(* UserModel and AuthController                                            *)
(***************************************************************************)
\* enum UserRole
SUPER_ADMIN == "Super Admin"
ADMIN == "Admin"
USER == "User"

\* the rows of the users table with IsActive = 1
UserRows ==
    {[id |-> "42", email |-> "a@example.com", role |-> USER],
     [id |-> "7", email |-> "b@example.com", role |-> ADMIN]}

\* the email addresses a request body carries
RequestEmails == {row.email : row \in UserRows}

\* what db.query does: it returns the rows selected, or it fails
DbOutcomes == {"rows", "error"}

\* UserModel.findByUsername(email): the user of the first row selected;
\* null if there is none or if the query failed
findByUsername(table, email, db) ==
    LET rows == {row \in table : row.email = email}
    IN  IF db = "error" \/ rows = {}
        THEN Null
        ELSE LET dbUser == CHOOSE row \in rows : TRUE
             IN  [id |-> dbUser.id, username |-> dbUser.email,
                  email |-> dbUser.email, role |-> dbUser.role]

\* UserModel.findByEmail(email)
findByEmail(table, email, db) == findByUsername(table, email, db)

ResetLinkSent ==
    "If an account with that email exists, a password reset link has been sent"

\* a forgotPassword that tells the caller the address is unknown
ForgotPassword_Reveal(table, body, secret, db, t) ==
    IF findByEmail(table, body.email, db) = Null
    THEN [status |-> 404, body |-> [success |-> FALSE, message |-> "User not found"],
          calls |-> <<>>]
    ELSE [status |-> 200, body |-> [success |-> TRUE, message |-> ResetLinkSent],
          calls |-> <<"generateResetToken">>]

\* AuthController.forgotPassword(req, res) at time t: the response, and
\* the JwtService calls made on the way
ForgotPassword(table, body, secret, db, t) ==
    LET user == findByEmail(table, body.email, db)
        token == Returned(JwtSign([id |-> user.id, type |-> "reset"], secret,
                                  ResetTokenExpiry, t))
    IN  IF user = Null
        THEN [status |-> 200,
              body |-> [success |-> TRUE, message |-> ResetLinkSent],
              calls |-> <<>>]
        ELSE IF token.threw
        THEN [status |-> 500,
              body |-> [success |-> FALSE, message |-> "Internal server error"],
              calls |-> <<"generateResetToken">>]
        ELSE [status |-> 200,
              body |-> [success |-> TRUE, message |-> ResetLinkSent],
              calls |-> <<"generateResetToken">>]

forgotPassword(body) ==
    /\ \E db \in DbOutcomes :
           httpResult' = Merge(ForgotPassword(users, body, resetTokenSecret, db, now),
                               [handler |-> "forgotPassword", request |-> body,
                                db |-> db])
    /\ UNCHANGED <<now, users, awaiting, certVars, jwtVars, blacklistVars, rateVars>>

(***************************************************************************)
(* Requests that pass through authenticate.                                *)
(***************************************************************************)
\* the payload login signs for a user
LoginPayload(user) ==
    [id |-> user.id, username |-> user.email, email |-> user.email,
     role |-> user.role]

\* the payloads of the access tokens callers hold: those login signs, and
\* JwtPayloads with a factoryId or with the role Super Admin
HttpPayloads ==
    {LoginPayload(row) : row \in UserRows}
    \cup {Merge(LoginPayload(row), [factoryId |-> "F1"]) :
             row \in {r \in UserRows : r.role = USER}}
    \cup {Merge(LoginPayload(row), [role |-> SUPER_ADMIN]) :
             row \in {r \in UserRows : r.role = ADMIN}}

\* access tokens signed at time 1
AccessTokens ==
    {JwtSign(payload, DefaultAccessSecret, AccessTokenExpiry, 1) :
         payload \in HttpPayloads}

\* the headers of a request: no Authorization header, or "Bearer <token>"
HttpHeaders ==
    {EmptyObject}
    \cup {[authorization |-> token] : token \in AccessTokens \cup {[malformed |-> TRUE]}}

(***************************************************************************)
(* authorizeFactoryAccess                                                  *)
(***************************************************************************)
\* req.params of a factory route: without or with a factoryId
FactoryParams == {EmptyObject} \cup {[factoryId |-> f] : f \in {"F1", "F2"}}

\* authorizeFactoryAccess(req, res, next) for a request on which
\* authenticate has set req.user to user
AuthorizeFactoryAccess(user, params) ==
    LET requestedFactoryId == Get(params, "factoryId")
        userFactoryId == Get(user, "factoryId")
    IN  IF Get(user, "role") = SUPER_ADMIN
        THEN [next |-> TRUE]
        ELSE IF requestedFactoryId = Undefined
        THEN [next |-> FALSE, status |-> 400, code |-> "FACTORY_ID_REQUIRED"]
        ELSE IF userFactoryId # Undefined /\ userFactoryId # requestedFactoryId
        THEN [next |-> FALSE, status |-> 403, code |-> "FACTORY_ACCESS_DENIED"]
        ELSE [next |-> TRUE]

\* a factory route: authenticate, then authorizeFactoryAccess
FactoryRequest(headers, params) ==
    LET auth == Authenticate(headers, now)
        request == [handler |-> "authorizeFactoryAccess", headers |-> headers,
                    params |-> params, at |-> now]
    IN  /\ IF ~auth.next
           THEN httpResult' = Merge(request, auth)
           ELSE httpResult' = Merge(Merge(request, [user |-> auth.user]),
                                    AuthorizeFactoryAccess(auth.user, params))
        /\ UNCHANGED <<now, users, awaiting, certVars, jwtVars, blacklistVars, rateVars>>

(***************************************************************************)
(* UserController behind authenticate and authorize                        *)
(***************************************************************************)
\* authorize(allowedRoles) for a request on which req.user is set
Authorize(allowedRoles, user) ==
    IF Get(user, "role") \notin allowedRoles
    THEN [next |-> FALSE, status |-> 403, code |-> "INSUFFICIENT_PERMISSIONS"]
    ELSE [next |-> TRUE]

\* UserModel.findById(id): the mock implementation returns a user with the
\* id asked for
findById(id) ==
    [id |-> id, username |-> "testuser", email |-> "test@example.com",
     role |-> USER]

\* UserModel.emailExists(email, excludeId)
emailExists(table, email, excludeId, db) ==
    LET existingUser == findByEmail(table, email, db)
    IN  existingUser # Null /\ existingUser.id # excludeId

\* Number(id) of an :id that is no number
NaN == "NaN"

\* the :id of a user route, after Number(id): the ids of the users who
\* hold tokens, and NaN
UserParams == {[id |-> row.id] : row \in UserRows} \cup {[id |-> NaN]}

InvalidUserId ==
    [status |-> 400, message |-> "Invalid user ID", calls |-> <<>>]

\* UserController.deleteUser(req, res) for the caller currentUser
DeleteUser(currentUser, params) ==
    LET userId == params.id
        existingUser == findById(userId)
    IN  IF userId = NaN THEN InvalidUserId
        ELSE IF Get(currentUser, "userId") = userId
        THEN [status |-> 403, message |-> "Cannot delete your own account",
              calls |-> <<>>]
        ELSE IF existingUser.role = ADMIN /\ Get(currentUser, "role") # ADMIN
        THEN [status |-> 403, message |-> "Cannot delete admin users",
              calls |-> <<>>]
        ELSE [status |-> 200, message |-> "User deleted successfully",
              calls |-> <<[method |-> "UserModel.delete", id |-> userId]>>]

\* the bodies of PUT /users/:id
UserUpdateBodies == {[role |-> ADMIN], [firstName |-> "Ann"]}

\* UserController.updateUser(req, res) for the caller currentUser
UpdateUser(currentUser, params, body, table, db) ==
    LET userId == params.id
        existingUser == findById(userId)
    IN  IF userId = NaN THEN InvalidUserId
        ELSE IF /\ Has(body, "email")
                /\ body.email # existingUser.email
                /\ emailExists(table, body.email, userId, db)
        THEN [status |-> 409, message |-> "Email already exists", calls |-> <<>>]
        ELSE IF /\ Get(currentUser, "userId") = userId
                /\ Has(body, "role")
                /\ Get(currentUser, "role") # ADMIN
        THEN [status |-> 403, message |-> "Cannot update your own role",
              calls |-> <<>>]
        ELSE [status |-> 200, message |-> "User updated successfully",
              calls |-> <<[method |-> "UserModel.update", id |-> userId,
                           userData |-> body]>>]

\* the route DELETE /users/:id: authenticate, authorize([ADMIN]), deleteUser
DeleteUserRequest(headers, params) ==
    LET auth == Authenticate(headers, now)
        role == Authorize({ADMIN}, auth.user)
        request == [handler |-> "deleteUser", headers |-> headers,
                    params |-> params, at |-> now]
    IN  /\ IF ~auth.next
           THEN httpResult' = Merge(request, auth)
           ELSE IF ~role.next
           THEN httpResult' = Merge(Merge(request, [user |-> auth.user]), role)
           ELSE httpResult' = Merge(Merge(request, [user |-> auth.user]),
                                    DeleteUser(auth.user, params))
        /\ UNCHANGED <<now, users, awaiting, certVars, jwtVars, blacklistVars, rateVars>>

\* the route PUT /users/:id: authenticate, authorize([ADMIN]), updateUser
UpdateUserRequest(headers, params, body) ==
    LET auth == Authenticate(headers, now)
        role == Authorize({ADMIN}, auth.user)
        request == [handler |-> "updateUser", headers |-> headers,
                    params |-> params, body |-> body, at |-> now]
    IN  /\ IF ~auth.next
           THEN httpResult' = Merge(request, auth)
           ELSE IF ~role.next
           THEN httpResult' = Merge(Merge(request, [user |-> auth.user]), role)
           ELSE \E db \in DbOutcomes :
                    httpResult' = Merge(Merge(request, [user |-> auth.user]),
                                        UpdateUser(auth.user, params, body, users, db))
        /\ UNCHANGED <<now, users, awaiting, certVars, jwtVars, blacklistVars, rateVars>>

(***************************************************************************)
(* CertificateController                                                   *)
(***************************************************************************)
\* the bodies of POST /certificates
ControllerCreateBodies == {[name |-> "Course A", type |-> "completion"]}

\* (req as any).user?.userId
CallerId(user) == Get(user, "userId")

\* the route POST /certificates: authenticate, then
\* CertificateController.createCertificate; userId.toString() throws a
\* TypeError when userId is undefined, and the error goes to next(error)
PostCertificate(headers, body, r) ==
    LET auth == Authenticate(headers, now)
        userId == CallerId(auth.user)
        certificate ==
            NewCertificate(nextUuid + 1, generateCertificateId(now, r),
                           Merge(body, [userId |-> userId]), now)
        request == [handler |-> "createCertificate", headers |-> headers,
                    body |-> body, at |-> now]
    IN  /\ IF ~auth.next
           THEN /\ httpResult' = Merge(request, auth)
                /\ UNCHANGED <<certificates, nextUuid>>
           ELSE IF userId = Undefined
           THEN /\ httpResult' = Merge(request, [user |-> auth.user,
                                                 error |-> "TypeError"])
                /\ UNCHANGED <<certificates, nextUuid>>
           ELSE /\ nextUuid < MaxCreates
                /\ certificates' = MapSet(certificates, certificate.id, certificate)
                /\ nextUuid' = nextUuid + 1
                /\ httpResult' = Merge(request, [user |-> auth.user, status |-> 201,
                                                 data |-> certificate])
        /\ queried' = EmptyObject
        /\ UNCHANGED <<now, users, emails, awaiting, jwtVars, blacklistVars, rateVars>>

\* the query strings of GET /certificates
ControllerQueries == {EmptyObject, [userId |-> "7"]}

\* the route GET /certificates: authenticate, then
\* CertificateController.getCertificates
ListCertificates(headers, query) ==
    LET auth == Authenticate(headers, now)
        userId == CallerId(auth.user)
        isAdmin == Get(auth.user, "role") = "admin"
        owner == IF isAdmin THEN Get(query, "userId") ELSE userId
        filters == IF owner = Undefined THEN EmptyObject ELSE [userId |-> owner]
        result == getCertificates(certificates, filters)
        request == [handler |-> "getCertificates", headers |-> headers,
                    query |-> query, at |-> now]
    IN  /\ IF ~auth.next
           THEN httpResult' = Merge(request, auth)
           ELSE IF ~isAdmin /\ userId = Undefined
           THEN httpResult' = Merge(request, [user |-> auth.user,
                                              error |-> "TypeError"])
           ELSE httpResult' = Merge(request, [user |-> auth.user, status |-> 200,
                                              data |-> result.certificates])
        /\ UNCHANGED <<now, users, awaiting, certVars, jwtVars, blacklistVars, rateVars>>

(***************************************************************************)
(* Initial state and specifications.                                       *)
(***************************************************************************)
Init ==
    /\ now = 1
    /\ certificates = <<>>
    /\ nextUuid = 0
    /\ emails = {}
    /\ queried = EmptyObject
    /\ accessTokenSecret = DefaultAccessSecret
    /\ refreshTokenSecret = DefaultRefreshSecret
    /\ resetTokenSecret = DefaultResetSecret
    /\ presented = EmptyObject
    /\ issuedFrom = EmptyObject
    /\ verified = EmptyObject
    /\ blacklistedTokens = {}
    /\ timers = {}
    /\ addedExpiry = {}
    /\ everCleared = FALSE
    /\ authResult = EmptyObject
    /\ windowMs = 1
    /\ max = 1
    /\ requests = EmptyObject
    /\ admitted = EmptyObject
    /\ admittedAt = [k \in Keys |-> <<>>]
    /\ response = EmptyObject
    /\ users = {}
    /\ httpResult = EmptyObject
    /\ awaiting = {}

Uuids == 1..MaxCreates

NextCert ==
    \/ \E input \in CreateInputs, r \in RandomSuffixes : createCertificate(input, r)
    \/ \E id \in Uuids, input \in UpdateInputs : updateCertificate(id, input)
    \/ \E id \in Uuids : deleteCertificate(id)
    \/ \E id \in Uuids : issueCertificate(id)
    \/ \E id \in Uuids, reason \in RevocationReasons : revokeCertificate(id, reason)
    \/ Tick

SpecCert == Init /\ [][NextCert]_vars

\* new JwtService(): the three secrets are read from the environment
InitJwt ==
    /\ now = 1
    /\ certificates = <<>>
    /\ nextUuid = 0
    /\ emails = {}
    /\ queried = EmptyObject
    /\ \E a \in EnvSecrets : accessTokenSecret = EnvOr(a, DefaultAccessSecret)
    /\ \E r \in EnvSecrets : refreshTokenSecret = EnvOr(r, DefaultRefreshSecret)
    /\ \E s \in EnvSecrets : resetTokenSecret = EnvOr(s, DefaultResetSecret)
    /\ presented = EmptyObject
    /\ issuedFrom = EmptyObject
    /\ verified = EmptyObject
    /\ blacklistedTokens = {}
    /\ timers = {}
    /\ addedExpiry = {}
    /\ everCleared = FALSE
    /\ authResult = EmptyObject
    /\ windowMs = 1
    /\ max = 1
    /\ requests = EmptyObject
    /\ admitted = EmptyObject
    /\ admittedAt = [k \in Keys |-> <<>>]
    /\ response = EmptyObject
    /\ users = {}
    /\ httpResult = EmptyObject
    /\ awaiting = {}

NextJwt ==
    \/ \E payload \in Payloads : generateAccessToken(payload)
    \/ \E payload \in Payloads : generateRefreshToken(payload)
    \/ \E userId \in UserIds : generateResetToken(userId)
    \/ \E token \in PresentableTokens : PresentToken(token)
    \/ \E class \in {"access", "refresh", "reset"} : VerifyPresented(class)
    \/ Advance

SpecJwt == InitJwt /\ [][NextJwt]_vars

NextAuth ==
    \/ \E token \in BlacklistableTokens, arguments \in ExpiryArguments :
           add(token, arguments)
    \/ \E timer \in timers : TimerFires(timer)
    \/ cleanup
    \/ \E req \in AuthRequests : authenticate(req)
    \/ Tick

SpecAuth == Init /\ [][NextAuth]_vars

\* The constructor's setInterval runs cleanup() again and again, for as
\* long as the process lives.
SpecAuthInterval == SpecAuth /\ WF_vars(cleanup)

\* the windowMs the limiter is created with: a few clock ticks, or just
\* over a second
WindowSizes == (1..MaxWindowMs) \cup {MsPerSecond + 1}

\* createRateLimitMiddleware(windowMs, max)
InitRate ==
    /\ now = 1
    /\ certificates = <<>>
    /\ nextUuid = 0
    /\ emails = {}
    /\ queried = EmptyObject
    /\ accessTokenSecret = DefaultAccessSecret
    /\ refreshTokenSecret = DefaultRefreshSecret
    /\ resetTokenSecret = DefaultResetSecret
    /\ presented = EmptyObject
    /\ issuedFrom = EmptyObject
    /\ verified = EmptyObject
    /\ blacklistedTokens = {}
    /\ timers = {}
    /\ addedExpiry = {}
    /\ everCleared = FALSE
    /\ authResult = EmptyObject
    /\ windowMs \in WindowSizes
    /\ max \in 0..MaxLimit
    /\ requests = EmptyObject
    /\ admitted = EmptyObject
    /\ admittedAt = [k \in Keys |-> <<>>]
    /\ response = EmptyObject
    /\ users = {}
    /\ httpResult = EmptyObject
    /\ awaiting = {}

NextRate ==
    \/ \E key \in Keys : RateLimit(key)
    \/ Advance

SpecRate == InitRate /\ [][NextRate]_vars

\* The server starts on a users table with any of the rows.
InitHttp ==
    /\ now = 1
    /\ certificates = <<>>
    /\ nextUuid = 0
    /\ emails = {}
    /\ queried = EmptyObject
    /\ accessTokenSecret = DefaultAccessSecret
    /\ refreshTokenSecret = DefaultRefreshSecret
    /\ resetTokenSecret = DefaultResetSecret
    /\ presented = EmptyObject
    /\ issuedFrom = EmptyObject
    /\ verified = EmptyObject
    /\ blacklistedTokens = {}
    /\ timers = {}
    /\ addedExpiry = {}
    /\ everCleared = FALSE
    /\ authResult = EmptyObject
    /\ windowMs = 1
    /\ max = 1
    /\ requests = EmptyObject
    /\ admitted = EmptyObject
    /\ admittedAt = [k \in Keys |-> <<>>]
    /\ response = EmptyObject
    /\ users \in SUBSET UserRows
    /\ httpResult = EmptyObject
    /\ awaiting = {}

NextHttp ==
    \/ \E email \in RequestEmails : forgotPassword([email |-> email])
    \/ \E headers \in HttpHeaders, body \in ControllerCreateBodies :
           PostCertificate(headers, body, "A")
    \/ \E headers \in HttpHeaders, query \in ControllerQueries :
           ListCertificates(headers, query)
    \/ \E headers \in HttpHeaders, params \in FactoryParams :
           FactoryRequest(headers, params)
    \/ \E headers \in HttpHeaders, params \in UserParams :
           DeleteUserRequest(headers, params)
    \/ \E headers \in HttpHeaders, params \in UserParams, body \in UserUpdateBodies :
           UpdateUserRequest(headers, params, body)
    \/ Advance

SpecHttp == InitHttp /\ [][NextHttp]_vars

(***************************************************************************)
(* Certificate verification and lifecycle.                                 *)
(***************************************************************************)
\* the certificateIds a caller may ask about: every generated one and one
\* that is never generated
AskedCertificateIds == CertificateIds \cup {<<"CERT", 0, "A">>}

\* expiresAt present and expiresAt < now
PastExpiry(certificate) ==
    "expiresAt" \in DOMAIN certificate /\ certificate.expiresAt < now

\* C1: verifyCertificate answers with the first check that matches, in the
\* order not-found, Revoked, Draft, expired: for the certificate the lookup
\* finds, Revoked reports "revoked" and Draft reports "not issued yet"
\* whatever its expiresAt, and only a certificate that is neither reports
\* "expired" (past expiresAt) or valid.
C1_VerifyPrecedence ==
    \A cid \in AskedCertificateIds :
        LET result == verifyCertificate(certificates, cid, now)
            stored == {i \in 1..Len(certificates) :
                          certificates[i].value.certificateId = cid}
        IN  IF stored = {}
            THEN result.isValid = FALSE /\ result.error = "Certificate not found"
            ELSE LET first == certificates[CHOOSE i \in stored :
                                               \A j \in stored : i <= j].value
                 IN  /\ first.status = REVOKED =>
                            /\ result.isValid = FALSE
                            /\ result.error = "Certificate has been revoked"
                     /\ first.status = DRAFT =>
                            /\ result.isValid = FALSE
                            /\ result.error = "Certificate has not been issued yet"
                     /\ (first.status \notin {REVOKED, DRAFT} /\ PastExpiry(first)) =>
                            /\ result.isValid = FALSE
                            /\ result.error = "Certificate has expired"
                     /\ (first.status \notin {REVOKED, DRAFT} /\ ~PastExpiry(first)) =>
                            result.isValid = TRUE
                     /\ result.certificate = first

\* C1 witness: a stored Revoked certificate with a past expiresAt is reported
\* as revoked, and a stored Draft certificate with a past expiresAt as not
\* issued yet.
C1_Witness ==
    /\ \E i \in 1..Len(certificates) :
          LET c == certificates[i].value
          IN  /\ c.status = REVOKED
              /\ PastExpiry(c)
              /\ verifyCertificate(certificates, c.certificateId, now).error
                     = "Certificate has been revoked"
    /\ \E i \in 1..Len(certificates) :
          LET c == certificates[i].value
          IN  /\ c.status = DRAFT
              /\ PastExpiry(c)
              /\ verifyCertificate(certificates, c.certificateId, now).error
                     = "Certificate has not been issued yet"

\* C2: verifyCertificate(certificateId) is valid exactly when a stored
\* certificate with that certificateId exists, its stored status is Issued
\* and its expiresAt is absent or not earlier than now.
C2_ValidIffIssuedUnexpired ==
    \A cid \in AskedCertificateIds :
        verifyCertificate(certificates, cid, now).isValid
        <=> \E i \in 1..Len(certificates) :
                LET c == certificates[i].value
                IN  /\ c.certificateId = cid
                    /\ c.status = ISSUED
                    /\ ~PastExpiry(c)

\* a stored status moves backwards along Draft -> Issued -> Revoked
Backwards(before, after) ==
    \/ before \in {ISSUED, REVOKED} /\ after = DRAFT
    \/ before = REVOKED /\ after = ISSUED

\* C3: no step moves the stored status of a certificate backwards along
\* Draft -> Issued -> Revoked.
C3_StatusMonotonic ==
    [][\A i \in 1..Len(certificates), j \in 1..Len(certificates') :
          certificates[i].key = certificates'[j].key =>
              ~Backwards(certificates[i].value.status,
                         certificates'[j].value.status)]_vars

(***************************************************************************)
(* Token verification.                                                     *)
(***************************************************************************)
\* the token's signature was made with secret, its issuer and audience
\* are the service's, and it is not expired at time t
AllChecksPass(token, secret, t) ==
    /\ "sig" \in DOMAIN token
    /\ token.sig = secret
    /\ "iss" \in DOMAIN token.payload /\ token.payload.iss = ISSUER
    /\ "aud" \in DOMAIN token.payload /\ token.payload.aud = AUDIENCE
    /\ "exp" \in DOMAIN token.payload => t < token.payload.exp

\* C7: verifyAccessToken and verifyRefreshToken never throw, return the
\* decoded payload when signature, issuer, audience and expiry all pass
\* against the matching secret, and return null when any of them fails.
C7_VerifyPayloadOrNull ==
    LET a == verifyAccessToken(presented, now)
        r == verifyRefreshToken(presented, now)
    IN  /\ a.threw = FALSE
        /\ r.threw = FALSE
        /\ IF AllChecksPass(presented, accessTokenSecret, now)
           THEN a.value = presented.payload
           ELSE a.value = Null
        /\ IF AllChecksPass(presented, refreshTokenSecret, now)
           THEN r.value = presented.payload
           ELSE r.value = Null

\* C7 witness: verifyAccessToken was called with a token that fails the
\* issuer check alone, and returned null.
C7_Witness ==
    /\ verified # EmptyObject
    /\ verified.by = "access"
    /\ verified.result = Returned(Null)
    /\ "sig" \in DOMAIN presented
    /\ presented.sig = accessTokenSecret
    /\ presented.payload.aud = AUDIENCE
    /\ presented.payload.iss # ISSUER
    /\ "exp" \in DOMAIN presented.payload
    /\ now < presented.payload.exp

\* C8: a token generated for one class is accepted only by the verifier
\* of that class.
C8_ClassSeparation ==
    issuedFrom # EmptyObject =>
        /\ issuedFrom.class = "reset" =>
               /\ verifyAccessToken(presented, now).value = Null
               /\ verifyRefreshToken(presented, now).value = Null
        /\ issuedFrom.class = "refresh" =>
               verifyAccessToken(presented, now).value = Null
        /\ issuedFrom.class = "access" =>
               verifyRefreshToken(presented, now).value = Null

\* C9: verifyResetToken returns null for every token whose type is not
\* "reset", and returns the decoded {id, type} exactly for the tokens that
\* pass signature, issuer, audience and expiry against the reset secret
\* and carry type "reset".
C9_ResetRequiresType ==
    LET r == verifyResetToken(presented, now)
        typed == /\ "sig" \in DOMAIN presented
                 /\ "type" \in DOMAIN presented.payload
                 /\ presented.payload.type = "reset"
    IN  /\ r.threw = FALSE
        /\ ~typed => r.value = Null
        /\ IF AllChecksPass(presented, resetTokenSecret, now) /\ typed
           THEN /\ r.value # Null
                /\ r.value.id = presented.payload.id
                /\ r.value.type = "reset"
           ELSE r.value = Null

\* C9 witness: verifyResetToken was called with a token that is signed
\* with the reset secret, has the right issuer and audience, is not
\* expired and carries no type "reset", and returned null.
C9_Witness ==
    /\ verified # EmptyObject
    /\ verified.by = "reset"
    /\ verified.result = Returned(Null)
    /\ AllChecksPass(presented, resetTokenSecret, now)
    /\ "username" \in DOMAIN presented.payload
    /\ "type" \notin DOMAIN presented.payload

\* C10: a token from generateAccessToken(payload) verifies, before its exp,
\* to a payload equal to the input on id, username, email, role and
\* factoryId, and verifies to null after its exp.
C10_AccessRoundTrip ==
    (issuedFrom # EmptyObject /\ issuedFrom.class = "access") =>
        LET r == verifyAccessToken(presented, now)
        IN  /\ now < presented.payload.exp =>
                   /\ r.value # Null
                   /\ \A f \in PayloadFields :
                          Get(r.value, f) = Get(issuedFrom.payload, f)
            /\ now > presented.payload.exp => r.value = Null

\* C10 witness: verifyAccessToken was called before exp with a token
\* generated from a payload whose factoryId is undefined, and returned
\* a payload.
C10_Witness ==
    /\ issuedFrom # EmptyObject
    /\ issuedFrom.class = "access"
    /\ "factoryId" \in DOMAIN issuedFrom.payload
    /\ issuedFrom.payload.factoryId = Undefined
    /\ verified # EmptyObject
    /\ verified.by = "access"
    /\ verified.result.value # Null
    /\ now < presented.payload.exp

(***************************************************************************)
(* Token revocation.                                                       *)
(***************************************************************************)
\* C4: authenticate rejects every request that carries a token present in
\* the revocation registry.
C4_BlacklistedRejected ==
    \A token \in BlacklistableTokens :
        isBlacklisted(token) =>
            Authenticate([authorization |-> token], now).next = FALSE

\* C5: while cleanup() has not cleared the registry, every token added
\* with an expiry that is still in the future is blacklisted.
C5_AddedStaysBlacklisted ==
    ~everCleared =>
        \A entry \in addedExpiry :
            entry[2] > now => isBlacklisted(entry[1])

(***************************************************************************)
(* Rate limiting.                                                          *)
(***************************************************************************)
\* what the limiter must have done with the last request, given the
\* window it found for the key
LastRequestHandled ==
    response # EmptyObject =>
        LET key == response.key
            found == response.found
            fresh == found = EmptyObject \/ found.resetTime < response.at
        IN  /\ fresh =>
                   /\ response.status = "next"
                   /\ requests[key] =
                          [count |-> 1, resetTime |-> response.at + windowMs]
            /\ (~fresh /\ found.count < max) =>
                   /\ response.status = "next"
                   /\ requests[key] = [found EXCEPT !.count = @ + 1]
            /\ (~fresh /\ found.count >= max) =>
                   /\ response.status = "429"
                   /\ found.count = max
                   /\ requests[key] = found

\* at most max requests of a key were admitted in its current window
AtMostMaxAdmitted ==
    \A key \in DOMAIN requests :
        /\ admitted[key] <= max
        /\ requests[key].count = admitted[key]

\* C6 as stated: for every windowMs and max, at most max requests of a key
\* are admitted per window; the first is admitted with count = 1, later
\* ones while count < max, and at count = max requests are rejected with
\* 429 and count is unchanged.
C6_AtMostMaxPerWindow == AtMostMaxAdmitted /\ LastRequestHandled

\* C6 amended: the same, for a limiter created with max >= 1.
C6_AtMostMaxPerWindow_PositiveMax ==
    max >= 1 => (AtMostMaxAdmitted /\ LastRequestHandled)

\* C6 witness: with max >= 1, a key has had max requests admitted in its
\* window and its next request in that window was rejected with 429.
C6_Witness ==
    /\ max >= 1
    /\ response # EmptyObject
    /\ response.status = "429"
    /\ response.key \in DOMAIN requests
    /\ admitted[response.key] = max
    /\ requests[response.key].count = max

(***************************************************************************)
(* The certificate store under arbitrary request bodies.                   *)
(***************************************************************************)
\* a certificateId a request body may carry
BodyCertificateId == <<"CERT", 0, "X">>

\* The objects createCertificate may be called with: the controller spreads
\* the request body into its argument, so besides the declared fields the
\* object may carry id (here: an id an earlier create returned),
\* certificateId or status.
CreateBodies ==
    LET base == [userId |-> "42", name |-> "Course A", type |-> "completion"]
    IN  {base, Merge(base, [certificateId |-> BodyCertificateId]),
         Merge(base, [status |-> ISSUED])}
        \cup {Merge(base, [id |-> u]) : u \in 1..nextUuid}

\* The request bodies the controller hands to updateCertificate unchanged:
\* a declared field, or status or certificateId.
UpdateBodies ==
    {[name |-> "Course B"], [status |-> DRAFT],
     [certificateId |-> BodyCertificateId]}

\* the certificateIds verification is asked about
BodyVerifications == {BodyCertificateId, generateCertificateId(1, "A")}

NextCertBody ==
    \/ \E input \in CreateBodies, r \in RandomSuffixes : createCertificate(input, r)
    \/ \E id \in Uuids, input \in UpdateBodies : updateCertificate(id, input)
    \/ \E id \in Uuids : deleteCertificate(id)
    \/ \E id \in Uuids : issueCertificate(id)
    \/ \E id \in Uuids, reason \in RevocationReasons : revokeCertificate(id, reason)
    \/ \E certificateId \in BodyVerifications : VerifyCertificate(certificateId)
    \/ GetCertificates(EmptyObject)
    \/ GetCertificateStatistics(Undefined)
    \/ Tick

SpecCertBody == Init /\ [][NextCertBody]_vars

\* the step is an update, issue or revoke call
UpdateIssueOrRevoke ==
    \/ \E id \in Uuids, input \in UpdateBodies : updateCertificate(id, input)
    \/ \E id \in Uuids : issueCertificate(id)
    \/ \E id \in Uuids, reason \in RevocationReasons : revokeCertificate(id, reason)

\* C11: no update, issue or revoke call changes the certificateId of a
\* stored certificate.
C11_CertificateIdImmutable ==
    [][UpdateIssueOrRevoke =>
          \A i \in 1..Len(certificates), j \in 1..Len(certificates') :
              certificates[i].key = certificates'[j].key =>
                  certificates'[j].value.certificateId
                      = certificates[i].value.certificateId]_vars

\* the step is a revoke call
RevokeStep ==
    \E id \in Uuids, reason \in RevocationReasons : revokeCertificate(id, reason)

\* the revocation fields of a certificate: revokedAt and revocationReason,
\* as far as they are set
RevocationFields(certificate) ==
    [k \in DOMAIN certificate \cap {"revokedAt", "revocationReason"} |->
        certificate[k]]

\* C12: revokedAt and revocationReason are written only by revoke, both
\* together, and once: a step changes them only if it is a revoke call, a
\* certificate that has them keeps them unchanged, and a stored certificate
\* has both or neither.
C12_RevocationFieldsOnce ==
    [][\A i \in 1..Len(certificates), j \in 1..Len(certificates') :
          certificates[i].key = certificates'[j].key =>
              LET before == RevocationFields(certificates[i].value)
                  after == RevocationFields(certificates'[j].value)
              IN  /\ before # after => RevokeStep
                  /\ before # EmptyObject => after = before
                  /\ DOMAIN after \in {{}, {"revokedAt", "revocationReason"}}]_vars

\* the entries of the store under the other ids, in iteration order
OtherEntries(certs, id) ==
    LET Other(entry) == entry.key # id
    IN  SelectSeq(certs, Other)

\* the step is a call of a mutating operation with internal id `id`
MutationOf(id) ==
    \/ \E input \in UpdateBodies : updateCertificate(id, input)
    \/ issueCertificate(id)
    \/ \E reason \in RevocationReasons : revokeCertificate(id, reason)
    \/ deleteCertificate(id)

\* every mutating operation returns null (delete: false) for the id
NotFoundResults(id) ==
    /\ \A input \in UpdateBodies :
           updateCertificateResult(certificates, id, input, now) = Returned(Null)
    /\ \A outcome \in EmailOutcomes :
           issueCertificateResult(certificates, id, now, outcome) = Returned(Null)
    /\ \A reason \in RevocationReasons :
           revokeCertificateResult(certificates, id, reason, now) = Returned(Null)
    /\ deleteCertificateResult(certificates, id) = Returned(FALSE)

\* the step is a call of a read operation
ReadStep ==
    \/ \E certificateId \in BodyVerifications : VerifyCertificate(certificateId)
    \/ GetCertificates(EmptyObject)
    \/ GetCertificateStatistics(Undefined)

\* C13: update, issue, revoke and delete of an id leave every certificate
\* stored under another id unchanged; for an unknown id they return null
\* (delete: false) and leave the whole store unchanged; verifyCertificate,
\* getCertificates and getCertificateStatistics leave the store unchanged.
C13_FrameOfOperations ==
    [][/\ \A id \in Uuids :
              \/ /\ OtherEntries(certificates', id) = OtherEntries(certificates, id)
                 /\ IndexOfKey(certificates, id) = 0 =>
                        /\ certificates' = certificates
                        /\ NotFoundResults(id)
              \/ ~MutationOf(id)
       /\ certificates' = certificates \/ ~ReadStep]_vars

\* C13 witness: two certificates are stored, the first was issued after its
\* creation, the second is as it was created, and a read operation has
\* returned both.
C13_Witness ==
    /\ Len(certificates) = 2
    /\ certificates[1].value.status = ISSUED
    /\ certificates[1].value.issuedAt > certificates[1].value.createdAt
    /\ certificates[2].value.status = DRAFT
    /\ certificates[2].value.updatedAt = certificates[2].value.createdAt
    /\ queried # EmptyObject
    /\ queried.op = "getCertificates"
    /\ queried.result.total = 2

(***************************************************************************)
(* Issuing with a notification.                                            *)
(***************************************************************************)
\* create inputs without and with a recipientEmail
NotifiedCreateInputs ==
    LET base == [userId |-> "42", name |-> "Course A", type |-> "completion"]
    IN  {base, Merge(base, [recipientEmail |-> "a@example.com"])}

NextIssue ==
    \/ \E input \in NotifiedCreateInputs, r \in RandomSuffixes :
           createCertificate(input, r)
    \/ \E id \in Uuids : issueCertificate(id)
    \/ \E id \in Uuids, reason \in RevocationReasons : revokeCertificate(id, reason)
    \/ Tick

SpecIssue == Init /\ [][NextIssue]_vars

\* C14: issueCertificate(id) on a stored certificate stores status Issued
\* with issuedAt = updatedAt = now whatever the notification does, and
\* makes the notification call exactly when the certificate has a
\* recipientEmail.
C14_IssueRecordedWhateverEmail ==
    [][\A id \in Uuids :
          (issueCertificate(id) /\ IndexOfKey(certificates, id) # 0) =>
              LET before == certificates[IndexOfKey(certificates, id)].value
                  after == certificates'[IndexOfKey(certificates', id)].value
              IN  /\ IndexOfKey(certificates', id) # 0
                  /\ after = Merge(before, [status |-> ISSUED, issuedAt |-> now,
                                            updatedAt |-> now])
                  /\ IF "recipientEmail" \in DOMAIN before
                     THEN \E outcome \in EmailOutcomes :
                              emails' = {Notification(before, now, outcome)}
                     ELSE emails' = {}]_vars

\* C14 witness: the notification of the last issue call was rejected, and
\* the certificate is stored as Issued at the time of that call.
C14_Witness ==
    \E email \in emails, i \in 1..Len(certificates) :
        /\ email.outcome = "threw"
        /\ certificates[i].value.certificateId = email.certificateId
        /\ certificates[i].value.status = ISSUED
        /\ certificates[i].value.issuedAt = email.at
        /\ certificates[i].value.updatedAt = email.at

(***************************************************************************)
(* Update and create against the fields the service owns.                  *)
(***************************************************************************)
\* C15: updateCertificate never changes the stored status: after
\* updateCertificate(id, input) the certificate under id has the status it
\* had before.
C15_UpdateKeepsStatus ==
    [][\A id \in Uuids, input \in UpdateInputs :
          (updateCertificate(id, input) /\ IndexOfKey(certificates, id) # 0) =>
              certificates'[IndexOfKey(certificates', id)].value.status
                  = certificates[IndexOfKey(certificates, id)].value.status]_vars

\* C16: createCertificate(input) adds one certificate and keeps every stored
\* one; the new certificate is stored under a fresh id, with that id, the
\* generated certificateId, status Draft and createdAt = updatedAt = now.
C16_CreateFreshDraft ==
    [][\A input \in CreateBodies, r \in RandomSuffixes :
          createCertificate(input, r) =>
              /\ Len(certificates') = Len(certificates) + 1
              /\ SubSeq(certificates', 1, Len(certificates)) = certificates
              /\ LET entry == certificates'[Len(certificates')]
                 IN  /\ entry.key = nextUuid + 1
                     /\ entry.value.id = nextUuid + 1
                     /\ entry.value.certificateId = generateCertificateId(now, r)
                     /\ entry.value.status = DRAFT
                     /\ entry.value.createdAt = now
                     /\ entry.value.updatedAt = now]_vars

(***************************************************************************)
(* Listing certificates.                                                   *)
(***************************************************************************)
\* create inputs whose texts the search filter tells apart
QueryCreateInputs ==
    {[userId |-> "42", name |-> <<"A", "b">>, type |-> "completion"],
     [userId |-> "43", name |-> <<"B">>, type |-> "completion",
      description |-> <<"a", "B">>],
     [userId |-> "42", name |-> <<"B">>, type |-> "completion",
      recipientName |-> <<"A">>]}

\* the filters getCertificates is called with
QueryFilters ==
    {EmptyObject,
     [status |-> ISSUED],
     [userId |-> "42"],
     [search |-> <<"A", "B">>],
     [search |-> <<"-", "1", "-">>],
     [dateFrom |-> MaxTime],
     [dateTo |-> 1],
     [status |-> DRAFT, userId |-> "42", search |-> <<"a">>, dateFrom |-> 1,
      dateTo |-> MaxTime],
     [offset |-> 0],
     [offset |-> 1],
     [offset |-> MaxCreates],
     [limit |-> 0],
     [limit |-> 1],
     [offset |-> 1, limit |-> 1],
     [offset |-> 1, limit |-> 0]}

NextQuery ==
    \/ \E input \in QueryCreateInputs, r \in RandomSuffixes :
           createCertificate(input, r)
    \/ \E id \in Uuids : issueCertificate(id)
    \/ \E filters \in QueryFilters : GetCertificates(filters)
    \/ Tick

SpecQuery == Init /\ [][NextQuery]_vars

\* the stored certificates that satisfy every filter that filters carries
Matching(filters) ==
    {i \in 1..Len(certificates) :
        LET cert == certificates[i].value
            texts == {cert.name, CertificateIdText(cert.certificateId)}
                     \cup {cert[k] : k \in DOMAIN cert \cap
                                        {"description", "recipientName"}}
        IN  /\ "status" \in DOMAIN filters => cert.status = filters.status
            /\ "userId" \in DOMAIN filters => cert.userId = filters.userId
            /\ "search" \in DOMAIN filters =>
                   \E text \in texts :
                       includes(toLowerCase(text), toLowerCase(filters.search))
            /\ "dateFrom" \in DOMAIN filters => cert.createdAt >= filters.dateFrom
            /\ "dateTo" \in DOMAIN filters => cert.createdAt <= filters.dateTo}

\* the orders of a set of stored certificates by createdAt descending
NewestFirstOrders(indices) ==
    {order \in [1..Cardinality(indices) -> indices] :
        /\ \A a, b \in DOMAIN order : a # b => order[a] # order[b]
        /\ \A a, b \in DOMAIN order :
               a < b => certificates[order[a]].value.createdAt
                            >= certificates[order[b]].value.createdAt}

\* the slice [offset, offset + limit) of an order, as certificates; without
\* a limit the slice ends with the order
PageOf(order, offset, limited, limit) ==
    LET n == Len(order)
        last == IF limited /\ offset + limit < n THEN offset + limit ELSE n
    IN  [k \in 1..(IF last > offset THEN last - offset ELSE 0) |->
            certificates[order[offset + k]].value]

\* the result is the page of the matching certificates, newest first, with
\* the total before pagination
IsPage(result, filters, limited) ==
    LET matching == Matching(filters)
        offset == IF "offset" \in DOMAIN filters THEN filters.offset ELSE 0
        limit == IF limited THEN filters.limit ELSE 0
    IN  /\ result.total = Cardinality(matching)
        /\ Len(result.certificates) <= result.total
        /\ \E order \in NewestFirstOrders(matching) :
               result.certificates = PageOf(order, offset, limited, limit)

\* C17 as stated: getCertificates(filters) returns the certificates that
\* satisfy all supplied filters, sorted by createdAt descending, cut to the
\* slice [offset, offset + limit), with total the number before pagination.
C17_ListFiltersSortsPaginates ==
    (queried # EmptyObject /\ queried.op = "getCertificates") =>
        IsPage(queried.result, queried.filters, "limit" \in DOMAIN queried.filters)

\* C17 amended: the same, where a limit of 0 counts as no limit.
C17_ListFiltersSortsPaginates_PositiveLimit ==
    (queried # EmptyObject /\ queried.op = "getCertificates") =>
        IsPage(queried.result, queried.filters, NonZero(queried.filters, "limit"))

\* C17 witness: two certificates created at different times are stored and
\* getCertificates({offset: 1, limit: 1}) returned the older one with
\* total 2.
C17_Witness ==
    /\ queried # EmptyObject
    /\ queried.op = "getCertificates"
    /\ queried.filters = [offset |-> 1, limit |-> 1]
    /\ queried.result.total = 2
    /\ Len(queried.result.certificates) = 1
    /\ certificates[1].value.createdAt < certificates[2].value.createdAt
    /\ queried.result.certificates[1] = certificates[1].value

(***************************************************************************)
(* Statistics.                                                             *)
(***************************************************************************)
\* the owners statistics are asked for: every owner (undefined), an owner
\* with certificates and one without
StatisticsOwners == {Undefined, "42", "43"}

\* C18: getCertificateStatistics(userId) counts as total the certificates of
\* the selected owner, as expired those of them whose expiresAt is present
\* and earlier than now whatever their status, as issued the Issued ones,
\* and total = draft + issued + revoked.
C18_StatisticsCounts ==
    \A userId \in StatisticsOwners :
        LET statistics == getCertificateStatistics(certificates, userId, now)
            selected == {i \in 1..Len(certificates) :
                            userId # Undefined =>
                                certificates[i].value.userId = userId}
        IN  /\ statistics.total = Cardinality(selected)
            /\ statistics.expired =
                   Cardinality({i \in selected : PastExpiry(certificates[i].value)})
            /\ statistics.issued =
                   Cardinality({i \in selected :
                                   certificates[i].value.status = ISSUED})
            /\ statistics.total =
                   statistics.draft + statistics.issued + statistics.revoked

(***************************************************************************)
(* Rate limiting: window reset and retryAfter.                             *)
(***************************************************************************)
\* the last request found a window of its key whose resetTime had this
\* relation to the time of the request, and was admitted into a new window
NewWindowAfter(elapsed) ==
    (response # EmptyObject /\ response.before # EmptyObject /\ elapsed) =>
        /\ response.status = "next"
        /\ requests[response.key] =
               [count |-> 1, resetTime |-> response.at + windowMs]

\* C19 as stated: a request of a key whose window's resetTime has been
\* reached (resetTime <= now) is admitted and starts a new window with
\* count = 1 and resetTime = now + windowMs.
C19_NewWindowOnceElapsed ==
    NewWindowAfter(response.before.resetTime <= response.at)

\* C19 amended: the same once the window's resetTime has passed
\* (resetTime < now).
C19_NewWindowOnceElapsed_Passed ==
    NewWindowAfter(response.before.resetTime < response.at)

\* C19 witness: a key had used up its window (count = max >= 1), its
\* resetTime passed, and its next request was admitted into a new window.
C19_Witness ==
    /\ response # EmptyObject
    /\ response.before # EmptyObject
    /\ max >= 1
    /\ response.before.count = max
    /\ response.before.resetTime < response.at
    /\ response.status = "next"
    /\ requests[response.key].count = 1

\* C20: a rejection carries code RATE_LIMIT_EXCEEDED and retryAfter, the
\* least number of seconds that covers the milliseconds from now to the
\* resetTime of the key's window; retryAfter is not negative and not more
\* than the seconds that cover windowMs.
C20_RetryAfter ==
    (response # EmptyObject /\ response.status = "429") =>
        LET remaining == requests[response.key].resetTime - response.at
        IN  /\ response.code = "RATE_LIMIT_EXCEEDED"
            /\ response.retryAfter * MsPerSecond >= remaining
            /\ (response.retryAfter - 1) * MsPerSecond < remaining
            /\ response.retryAfter >= 0
            /\ (response.retryAfter - 1) * MsPerSecond < windowMs

\* C20 witness: with a window of just over a second, a request was rejected
\* one millisecond more than a second before resetTime, with retryAfter = 2.
C20_Witness ==
    /\ response # EmptyObject
    /\ response.status = "429"
    /\ windowMs > MsPerSecond
    /\ requests[response.key].resetTime - response.at = MsPerSecond + 1
    /\ response.retryAfter = 2

(***************************************************************************)
(* Bursts across a window boundary.                                        *)
(***************************************************************************)
\* the number of requests of key admitted at a time in from..to
AdmittedBetween(key, from, to) ==
    Cardinality({i \in DOMAIN admittedAt[key] :
                    from <= admittedAt[key][i] /\ admittedAt[key][i] <= to})

\* C21 as stated: over any interval no longer than windowMs, at most
\* 2 * max requests of one key are admitted.
C21_BurstAtMostTwiceMax ==
    \A key \in Keys, from \in LongTimes :
        AdmittedBetween(key, from, from + windowMs) <= 2 * max

\* C21 amended: for a limiter created with max >= 1, over any interval no
\* longer than windowMs at most 2 * max - 1 requests of one key are
\* admitted, and so never more than 2 * max.
C21_BurstAtMostTwiceMax_PositiveMax ==
    max >= 1 =>
        \A key \in Keys, from \in LongTimes :
            AdmittedBetween(key, from, from + windowMs) <= 2 * max - 1

\* C21 witness: a burst straddles a window boundary: with max >= 2, a key
\* had 2 * max - 1 requests admitted within windowMs, the last max of them
\* in the window that is open now and the others in the window before.
C21_Witness ==
    /\ max >= 2
    /\ \E key \in DOMAIN requests, from \in LongTimes :
           /\ from + windowMs >= now
           /\ AdmittedBetween(key, from, from + windowMs) = 2 * max - 1
           /\ requests[key].count = max
           /\ requests[key].resetTime = now + windowMs
           /\ response.status = "429"
           /\ response.key = key
(***************************************************************************)
(* The size of the revocation registry.                                    *)
(***************************************************************************)
\* a timer of add that is due removes its token
TimerRemoval ==
    \E timer \in timers :
        /\ now >= timer.at
        /\ blacklistedTokens' = blacklistedTokens \ {timer.token}

Seen(result) == [status |-> result.status, body |-> result.body]

ConcurrentCreateInputs ==
    {[userId |-> "42", name |-> "Course A", type |-> "completion",
      recipientEmail |-> "a@example.com"]}

\* the request bodies of updateCertificate while other calls are in flight
ConcurrentUpdateInputs == {[name |-> "Course B"]}

\* Handlers run concurrently and interleave at their await points: every
\* service method runs to completion in one step, except issueCertificate,
\* which suspends while the notification is sent.
NextConcurrent ==
    \/ \E input \in ConcurrentCreateInputs, r \in RandomSuffixes :
           createCertificate(input, r)
    \/ \E id \in Uuids, input \in ConcurrentUpdateInputs : updateCertificate(id, input)
    \/ \E id \in Uuids : deleteCertificate(id)
    \/ \E id \in Uuids : issueCertificateBegin(id)
    \/ \E call \in awaiting : issueCertificateResume(call)
    \/ \E id \in Uuids, reason \in RevocationReasons : revokeCertificate(id, reason)
    \/ Tick

SpecConcurrent == Init /\ [][NextConcurrent]_vars

\* the certificates an operation at time t may store in place of before
WritesFrom(before, t) ==
    {UpdatedCertificate(before, input, t) : input \in ConcurrentUpdateInputs}
        \cup {IssuedCertificate(before, t)}
        \cup {RevokedCertificate(before, reason, t) : reason \in RevocationReasons}

\* C24: whatever the interleaving, a call that resumes after its await
\* leaves the store alone, and every certificate written over a stored one
\* is computed from the certificate that is in the store at that moment:
\* no write carries data read before a suspension.
C24_MutationsAtomic ==
    [][/\ \A call \in awaiting :
              certificates' = certificates \/ ~issueCertificateResume(call)
       /\ \A id \in Uuids :
              LET i == IndexOfKey(certificates, id)
                  j == IndexOfKey(certificates', id)
              IN  (i # 0 /\ j # 0 /\ certificates'[j] # certificates[i]) =>
                      certificates'[j].value \in WritesFrom(certificates[i].value, now)]_vars

\* C24 witness: while an issueCertificate call is suspended at its await, a
\* concurrent revoke has written the certificate the call had stored.
C24_Witness ==
    \E call \in awaiting :
        LET i == IndexOfKey(certificates, call.id)
        IN  /\ i # 0
            /\ certificates[i].value.status = REVOKED
            /\ certificates[i].value.issuedAt = call.at
            /\ certificates[i].value # call.updatedCertificate
(***************************************************************************)
(* Issue and revoke from any status.                                       *)
(***************************************************************************)
\* C25: on a stored certificate, whatever its status, issueCertificate
\* stores status Issued with issuedAt = now and returns the certificate
\* (unless its notification is rejected), and revokeCertificate stores
\* status Revoked with revokedAt = now and revocationReason = reason and
\* returns the certificate.
C25_IssueRevokeUnguarded ==
    [][\A id \in Uuids :
          LET i == IndexOfKey(certificates, id)
              before == certificates[i].value
              after == certificates'[IndexOfKey(certificates', id)].value
          IN  \/ i = 0
              \/ /\ \/ ~issueCertificateBegin(id)
                    \/ /\ IndexOfKey(certificates', id) # 0
                       /\ after = Merge(before, [status |-> ISSUED, issuedAt |-> now,
                                                 updatedAt |-> now])
                       /\ \A outcome \in EmailOutcomes \ {"threw"} :
                              issueCertificateResult(certificates, id, now, outcome)
                                  = Returned(after)
                 /\ \A reason \in RevocationReasons :
                        \/ ~revokeCertificate(id, reason)
                        \/ /\ IndexOfKey(certificates', id) # 0
                           /\ after = Merge(before,
                                            [status |-> REVOKED, revokedAt |-> now,
                                             revocationReason |-> reason,
                                             updatedAt |-> now])
                           /\ revokeCertificateResult(certificates, id, reason, now)
                                  = Returned(after)]_vars

\* C25 witness: an issueCertificate call found its certificate already
\* Issued and has stored a later issuedAt, and another certificate was
\* revoked without ever having been issued.
C25_Witness ==
    /\ \E call \in awaiting :
           /\ call.certificate.status = ISSUED
           /\ call.updatedCertificate.status = ISSUED
           /\ call.updatedCertificate.issuedAt > call.certificate.issuedAt
           /\ IndexOfKey(certificates, call.id) # 0
           /\ certificates[IndexOfKey(certificates, call.id)].value
                  = call.updatedCertificate
    /\ \E i \in 1..Len(certificates) :
           /\ certificates[i].value.status = REVOKED
           /\ ~Has(certificates[i].value, "issuedAt")
           /\ certificates[i].value.revokedAt = now
(***************************************************************************)
(* The expiry a caller supplies.                                           *)
(***************************************************************************)
\* CertificateCreateInput without and with its expiryDate
ExpiryCreateInputs ==
    LET base == [userId |-> "42", name |-> "Course A", type |-> "completion"]
    IN  {base} \cup {Merge(base, [expiryDate |-> t]) : t \in Times}

\* CertificateUpdateInput with its expiryDate
ExpiryUpdateInputs == {[expiryDate |-> t] : t \in Times}

NextExpiry ==
    \/ \E input \in ExpiryCreateInputs, r \in RandomSuffixes : createCertificate(input, r)
    \/ \E id \in Uuids, input \in ExpiryUpdateInputs : updateCertificate(id, input)
    \/ \E id \in Uuids : issueCertificate(id)
    \/ \E certificateId \in CertificateIds : VerifyCertificate(certificateId)
    \/ GetCertificateStatistics(Undefined)
    \/ Tick

SpecExpiry == Init /\ [][NextExpiry]_vars

\* the expiry date supplied through the typed inputs lies in the past
SuppliedExpiryPast(certificate) ==
    Has(certificate, "expiryDate") /\ certificate.expiryDate < now

\* C26: verifyCertificate reports an Issued certificate whose supplied
\* expiry date lies in the past as invalid with 'Certificate has expired',
\* and the statistics count every certificate with such an expiry date as
\* expired.
C26_SuppliedExpiryChecked ==
    /\ \A certificateId \in CertificateIds :
           LET result == verifyCertificate(certificates, certificateId, now)
           IN  (/\ Has(result, "certificate")
                /\ result.certificate.status = ISSUED
                /\ SuppliedExpiryPast(result.certificate)) =>
                   /\ result.isValid = FALSE
                   /\ Has(result, "error")
                   /\ result.error = "Certificate has expired"
    /\ getCertificateStatistics(certificates, Undefined, now).expired =
           Cardinality({i \in 1..Len(certificates) :
                           SuppliedExpiryPast(certificates[i].value)})
(***************************************************************************)
(* The owner of a certificate created over HTTP.                           *)
(***************************************************************************)
\* the last request passed authenticate, which set req.user
Authenticated == httpResult # EmptyObject /\ Has(httpResult, "user")

\* C27: a createCertificate request of an authenticated caller answers 201
\* with a Draft certificate owned by the caller's id, and a getCertificates
\* request of an authenticated non-admin caller answers 200 with
\* certificates of that owner only.
C27_CreatedForCaller ==
    /\ (Authenticated /\ httpResult.handler = "createCertificate") =>
           /\ Has(httpResult, "status")
           /\ httpResult.status = 201
           /\ httpResult.data.status = DRAFT
           /\ httpResult.data.userId = httpResult.user.id
    /\ (/\ Authenticated
        /\ httpResult.handler = "getCertificates"
        /\ httpResult.user.role # "admin") =>
           /\ Has(httpResult, "status")
           /\ httpResult.status = 200
           /\ \A i \in 1..Len(httpResult.data) :
                  httpResult.data[i].userId = httpResult.user.id
(***************************************************************************)
(* The two outcomes of authenticate.                                       *)
(***************************************************************************)
\* the payload verifyAccessToken returns for the request's token; null
\* when there is no token
VerifiedPayload(req, t) ==
    IF Has(req, "authorization")
    THEN verifyAccessToken(req.authorization, t).value
    ELSE Null

\* C28: authenticate calls next exactly when verifyAccessToken returns a
\* payload for the request's token, and then req.user holds the fields of
\* that payload; in every other case it answers 401, does not call next
\* and sets no req.user.
C28_AuthenticateOneOutcome ==
    [][\A req \in AuthRequests :
          \/ ~authenticate(req)
          \/ LET decoded == VerifiedPayload(req, now)
             IN  IF decoded # Null
                 THEN /\ authResult'.next
                      /\ ~Has(authResult', "status")
                      /\ authResult'.user =
                             [f \in PayloadFields |-> Get(decoded, f)]
                 ELSE /\ ~authResult'.next
                      /\ authResult'.status = 401
                      /\ ~Has(authResult', "user")]_vars

\* C28 witness: the last request carried an access token that verified;
\* authenticate called next with req.user built from its payload.
C28_Witness ==
    /\ authResult # EmptyObject
    /\ authResult.next
    /\ authResult.request = [authorization |-> IssuedAccessToken]
    /\ authResult.user.id = BasePayload.id
    /\ authResult.user.role = BasePayload.role
    /\ VerifiedPayload(authResult.request, now) # Null
(***************************************************************************)
(* Access to a factory.                                                    *)
(***************************************************************************)
\* C29: authorizeFactoryAccess calls next only for a Super Admin or for a
\* caller whose token carries the requested factoryId; every other
\* authenticated caller gets 400 when no factory id is requested and 403
\* FACTORY_ACCESS_DENIED otherwise.
C29_FactoryAccess ==
    (Authenticated /\ httpResult.handler = "authorizeFactoryAccess") =>
        LET allowed ==
                \/ httpResult.user.role = SUPER_ADMIN
                \/ /\ Has(httpResult.params, "factoryId")
                   /\ httpResult.user.factoryId = httpResult.params.factoryId
        IN  /\ httpResult.next <=> allowed
            /\ ~allowed =>
                   IF Has(httpResult.params, "factoryId")
                   THEN /\ httpResult.status = 403
                        /\ httpResult.code = "FACTORY_ACCESS_DENIED"
                   ELSE httpResult.status = 400
(***************************************************************************)
(* Deleting and promoting oneself.                                         *)
(***************************************************************************)
\* the handler called a method of UserModel
Called(method) ==
    /\ Has(httpResult, "calls")
    /\ \E i \in 1..Len(httpResult.calls) : httpResult.calls[i].method = method

\* C30: a deleteUser request of an authenticated caller for the caller's
\* own id is answered 403 without a call of UserModel.delete, and an
\* updateUser request of a non-admin caller that sets the role of the
\* caller's own account is answered 403 without a call of UserModel.update.
C30_NoSelfDelete ==
    /\ (/\ Authenticated
        /\ httpResult.handler = "deleteUser"
        /\ httpResult.params.id = httpResult.user.id) =>
           /\ httpResult.status = 403
           /\ ~Called("UserModel.delete")
    /\ (/\ Authenticated
        /\ httpResult.handler = "updateUser"
        /\ httpResult.params.id = httpResult.user.id
        /\ Has(httpResult.body, "role")
        /\ httpResult.user.role # ADMIN) =>
           /\ httpResult.status = 403
           /\ ~Called("UserModel.update")
====
